---- MODULE Spec2Model ----
(***************************************************************************)
(* Model of the Rollbar GraphQL gateway (src/index.js): the resolver map,  *)
(* the URL builders, maybeGet with its process-wide cache, trunc and       *)
(* contextFn.  JSON values are tagged records, JavaScript truthiness,      *)
(* property access and Array methods are operators, promises are records   *)
(* that the upstream settles in any order.                                  *)
(***************************************************************************)
EXTENDS Integers, Sequences, FiniteSets, TLC

VARIABLES
    CACHE,      \* process.env.CACHE is set (index.js:12), fixed for the process
    cache,      \* index.js:300, key string -> index of the stored promise
    promises,   \* one record per fetch(url) issued by maybeGet, in issue order
    calls,      \* one record per maybeGet invocation, in invocation order
    tasks,      \* the resolver invocations, each with its request's context
    args,       \* arguments of a function applied on its own (trunc, the unwrapper)
    ret         \* its result

vars == <<CACHE, cache, promises, calls, tasks, args, ret>>

----------------------------------------------------------------------------
(* Bounds of the exploration *)

MaxTasks == 2
MaxFetches == 3
MaxLen == 5
MaxArg == 3

----------------------------------------------------------------------------
(* JSON and JavaScript values *)

Null == [t |-> "null"]
Undefined == [t |-> "undefined"]
Num(n) == [t |-> "num", num |-> n]
Str(s) == [t |-> "str", str |-> s]
List(l) == [t |-> "list", list |-> l]
Obj(o) == [t |-> "obj", obj |-> o]
\* a thrown exception, as the outcome of a callback or the reason of a rejection
Throw == [t |-> "throw"]
\* a promise that has not settled
Pending == [t |-> "pending"]

\* ToBoolean, as used by `if (x)`, `!x`, `a && b`, `a || b`
Truthy(v) ==
    CASE v.t \in {"null", "undefined"} -> FALSE
      [] v.t = "num" -> v.num # 0
      [] v.t = "str" -> v.str # ""
      [] OTHER -> TRUE

\* x == null
IsNullish(v) == v.t \in {"null", "undefined"}

\* a[p] for a value a that is neither null nor undefined and a key p that
\* is no Array or String built-in
Get(a, p) ==
    IF a.t = "obj" /\ p \in DOMAIN a.obj THEN a.obj[p] ELSE Undefined

\* a && b
AndAlso(a, b) == IF Truthy(a) THEN b ELSE a

\* a || b
OrElse(a, b) == IF Truthy(a) THEN a ELSE b

Digit(d) ==
    CASE d = 0 -> "0" [] d = 1 -> "1" [] d = 2 -> "2" [] d = 3 -> "3"
      [] d = 4 -> "4" [] d = 5 -> "5" [] d = 6 -> "6" [] d = 7 -> "7"
      [] d = 8 -> "8" [] d = 9 -> "9"

RECURSIVE Decimal(_)
Decimal(n) == IF n < 10 THEN Digit(n) ELSE Decimal(n \div 10) \o Digit(n % 10)

\* `${v}` in a template literal
ToStr(v) ==
    CASE v.t = "null" -> "null"
      [] v.t = "undefined" -> "undefined"
      [] v.t = "str" -> v.str
      [] v.t = "num" -> IF v.num < 0 THEN "-" \o Decimal(-v.num) ELSE Decimal(v.num)

Min(a, b) == IF a < b THEN a ELSE b
Max(a, b) == IF a > b THEN a ELSE b

\* Array.prototype.slice(start, end) on the elements l
SliceSeq(l, start, end) ==
    LET len == Len(l)
        rel(k) == IF k < 0 THEN Max(len + k, 0) ELSE Min(k, len)
        from == rel(start)
        to == rel(end)
    IN IF from >= to THEN <<>> ELSE SubSeq(l, from + 1, to)

\* data.slice(start, end); calling it on a value that has no slice method throws
ArraySlice(v, start, end) ==
    IF v.t = "list" THEN List(SliceSeq(v.list, start, end)) ELSE Throw

----------------------------------------------------------------------------
(* The filters the resolvers pass to maybeGet *)

NoFilter == "none"
UserFilter == "username&&email"
ProjectFilter == "status"
Filters == {NoFilter, UserFilter, ProjectFilter}

\* the predicate reads a property of the element: that throws on null/undefined
FilterThrows(f, u) == IsNullish(u)

FilterKeeps(f, u) ==
    IF f = UserFilter
    THEN Truthy(AndAlso(Get(u, "username"), Get(u, "email")))
    ELSE Truthy(Get(u, "status"))

\* v.filter(f): a TypeError unless v is an array
ArrayFilter(v, f) ==
    IF v.t # "list" THEN Throw
    ELSE IF \E i \in 1..Len(v.list) : FilterThrows(f, v.list[i]) THEN Throw
    ELSE List(SelectSeq(v.list, LAMBDA u : FilterKeeps(f, u)))

----------------------------------------------------------------------------
(* The response unwrapper: the last .then of maybeGet *)

\* path.split('.').reduce((a, p) => (a && a[p]), data.result), the path
\* given as its segments
RECURSIVE PathReduce(_, _)
PathReduce(a, segs) ==
    IF segs = <<>> THEN a
    ELSE PathReduce(AndAlso(a, Get(a, Head(segs))), Tail(segs))

UnwrapErrAfterPath(data, path, filter) ==
    IF path = <<>>
    THEN IF Truthy(data.err) THEN Null
         ELSE IF filter = NoFilter THEN data.result
         ELSE ArrayFilter(data.result, filter)
    ELSE LET result == PathReduce(data.result, path)
         IN IF filter = NoFilter \/ ~Truthy(result) THEN result
            ELSE ArrayFilter(result, filter)

\* the value the promise resolves to, or Throw when the callback throws; an
\* absent path is <<>>
Unwrap(data, path, filter) ==
    IF Truthy(data.err) THEN Null
    ELSE IF path = <<>>
    THEN IF filter = NoFilter THEN data.result
         ELSE ArrayFilter(data.result, filter)
    ELSE LET result == PathReduce(data.result, path)
         IN IF filter = NoFilter \/ ~Truthy(result) THEN result
            ELSE ArrayFilter(result, filter)

----------------------------------------------------------------------------
(* trunc: the .then callback, applied to the outcome of the promise *)

\* a rejected promise skips the callback and trunc's promise rejects too
trunc(first, skip, data) ==
    IF data = Throw THEN Throw
    ELSE IF ~Truthy(data) THEN data
    ELSE IF IsNullish(first) /\ IsNullish(skip) THEN data
    ELSE IF IsNullish(first)
         THEN ArraySlice(data, skip.num + 1, IF data.t = "list" THEN Len(data.list) ELSE 0)
    ELSE LET sk == OrElse(skip, Num(-1)).num
         IN ArraySlice(data, sk + 1, sk + 1 + first.num)

----------------------------------------------------------------------------
(* Context derivation and the URL builders *)

ACCOUNT_TOKEN == "acct0"
PROJECT_TOKEN == "proj0"
BASE_URL == "https://api.rollbar.com/api/1/"

AccountHeader == "x-account-token"
ProjectHeader == "x-project-token"

\* the headers of the requests explored: none at all, and objects carrying
\* one or both token headers, one of them with an empty value
Headers ==
    { Undefined,
      Obj((AccountHeader :> Str("foo"))),
      Obj((AccountHeader :> Str("")) @@ (ProjectHeader :> Str("foo"))) }

\* the headers of the requests that resolve the fields of a team: they carry
\* their account token
FanOutHeaders == { Obj((AccountHeader :> Str("foo"))) }

\* the headers of the requests that look items up
ItemHeaders == { Undefined, Obj((ProjectHeader :> Str("foo"))) }

contextFnSticky(request) ==
    LET prev == IF tasks = <<>>
                THEN [accountToken |-> Str(ACCOUNT_TOKEN), projectToken |-> Str(PROJECT_TOKEN)]
                ELSE tasks[Len(tasks)].ctx
        headers == request.headers
    IN IF ~Truthy(headers) THEN prev
       ELSE [accountToken |-> OrElse(Get(headers, AccountHeader), prev.accountToken),
             projectToken |-> OrElse(Get(headers, ProjectHeader), prev.projectToken)]

contextFn(request) ==
    LET ctx == [accountToken |-> Str(ACCOUNT_TOKEN), projectToken |-> Str(PROJECT_TOKEN)]
        headers == request.headers
    IN IF ~Truthy(headers) THEN ctx
       ELSE [accountToken |-> OrElse(Get(headers, AccountHeader), ctx.accountToken),
             projectToken |-> OrElse(Get(headers, ProjectHeader), ctx.projectToken)]

\* query is Undefined or a string
buildAccountUrl(ctx, endpoint, query) ==
    LET q == IF Truthy(query) THEN "&" \o ToStr(query) ELSE ""
    IN BASE_URL \o endpoint \o "?access_token=" \o ToStr(ctx.accountToken) \o q

buildProjectUrl(ctx, endpoint, query) ==
    LET q == IF Truthy(query) THEN "&" \o ToStr(query) ELSE ""
    IN BASE_URL \o endpoint \o "?access_token=" \o ToStr(ctx.projectToken) \o q

----------------------------------------------------------------------------
(* maybeGet and the cache *)

\* path segments joined back into the string the resolver passed; an absent
\* path prints as the empty string in an array-to-string conversion
RECURSIVE PathString(_)
PathString(segs) ==
    IF segs = <<>> THEN ""
    ELSE IF Len(segs) = 1 THEN segs[1]
    ELSE segs[1] \o "." \o PathString(Tail(segs))

KeyPathOnly(url, path) == PathString(path)

\* the property name that cache[[url, path]] reads and writes
Key(url, path) == url \o "," \o PathString(path)

CacheHitNever(c, url, path) == FALSE

\* CACHE && cache[[url, path]]: a stored promise is always truthy
CacheHit(c, url, path) == CACHE /\ Key(url, path) \in DOMAIN c

CacheStoreLast(c, url, path, p) == IF CACHE THEN (Key(url, path) :> p) ELSE c

\* if (CACHE) cache[[url, path]] = p
CacheStore(c, url, path, p) ==
    IF CACHE THEN (Key(url, path) :> p) @@ c ELSE c

\* One invocation of maybeGet on the state st = [cache, promises, calls], by
\* resolver invocation t.  The
\* promise returned is the p of the last record of calls; hit says that it
\* came from the cache, and seen what it had settled to by then.
maybeGet(st, url, path, filter, t) ==
    IF CacheHit(st.cache, url, path)
    THEN [st EXCEPT !.calls = Append(@,
            [url |-> url, path |-> path, filter |-> filter,
             p |-> st.cache[Key(url, path)], hit |-> TRUE,
             seen |-> st.promises[st.cache[Key(url, path)]].out,
             task |-> t])]
    ELSE LET p == Len(st.promises) + 1
         IN [cache |-> CacheStore(st.cache, url, path, p),
             promises |-> Append(st.promises,
                [url |-> url, path |-> path, filter |-> filter,
                 env |-> Pending, out |-> Pending, late |-> FALSE]),
             calls |-> Append(st.calls,
                [url |-> url, path |-> path, filter |-> filter,
                 p |-> p, hit |-> FALSE, seen |-> Pending,
                 task |-> t])]

Heap == [cache |-> cache, promises |-> promises, calls |-> calls]

SetHeap(st) ==
    /\ cache' = st.cache
    /\ promises' = st.promises
    /\ calls' = st.calls

Returned(st) == st.calls[Len(st.calls)].p

----------------------------------------------------------------------------
(* The upstream REST service *)

\* membership records as the team endpoints list them; only the first
\* carries a status
Member1 == Obj([user_id |-> Num(1), project_id |-> Num(1), status |-> Str("enabled")])
Member2 == Obj([user_id |-> Num(2), project_id |-> Num(2)])

\* the single entity the service returns for a URL
Entity(url) == Obj([self |-> Str(url)])

ErrEnvelope == [err |-> Num(1), result |-> Null]

\* the contexts contextFn can derive
Contexts == { contextFn([headers |-> h]) : h \in Headers }

\* the URLs of the membership endpoints, which list records
MembershipUrls ==
    UNION { { buildAccountUrl(ctx, "team/1/users", Str("page=1")),
              buildAccountUrl(ctx, "team/1/projects", Undefined) } : ctx \in Contexts }

\* the URLs of the occurrence listing, which wraps its list in an object
InstancesUrls ==
    UNION { { buildProjectUrl(ctx, "instances", Undefined),
              buildProjectUrl(ctx, "instances", Str("page=2")) } : ctx \in Contexts }

\* the envelopes the service may answer a request for url with: an error, or
\* the membership list, the page of occurrences or the entity that the
\* endpoint serves
Envelopes(url) ==
    { ErrEnvelope,
      IF url \in MembershipUrls
      THEN [err |-> Num(0), result |-> List(<<Member1, Member2>>)]
      ELSE IF url \in InstancesUrls
      THEN [err |-> Num(0), result |-> Obj([instances |-> List(<<Entity(url)>>)])]
      ELSE [err |-> Num(0), result |-> Entity(url)] }

----------------------------------------------------------------------------
(* Promise.all *)

PromiseAllReversed(ps) ==
    IF \E i \in 1..Len(ps) : promises[ps[i]].out = Throw THEN Throw
    ELSE IF \E i \in 1..Len(ps) : promises[ps[i]].out = Pending THEN Pending
    ELSE List([i \in 1..Len(ps) |-> promises[ps[Len(ps) + 1 - i]].out])

PromiseAllDropAbsent(ps) ==
    IF \E i \in 1..Len(ps) : promises[ps[i]].out = Throw THEN Throw
    ELSE IF \E i \in 1..Len(ps) : promises[ps[i]].out = Pending THEN Pending
    ELSE List(SelectSeq([i \in 1..Len(ps) |-> promises[ps[i]].out],
                        LAMBDA v : Truthy(v)))

\* the outcome of Promise.all over the promises ps: rejected once one of them
\* is, fulfilled with the values in the order of ps once all are
PromiseAll(ps) ==
    IF \E i \in 1..Len(ps) : promises[ps[i]].out = Throw THEN Throw
    ELSE IF \E i \in 1..Len(ps) : promises[ps[i]].out = Pending THEN Pending
    ELSE List([i \in 1..Len(ps) |-> promises[ps[i]].out])

----------------------------------------------------------------------------
(* The resolvers *)

UserIds == {1}
TeamIds == {1}
\* id and counter of Query.item are optional Ints
ItemIds == {Undefined, Num(0), Num(1)}
ItemCounters == {Undefined, Num(1)}
\* page of Query.occurrences is an optional Int
Pages == {Undefined, Num(2)}

\* the requests that have invoked a resolver, numbered in order of arrival
NumRequests == Cardinality({ tasks[t].req : t \in 1..Len(tasks) })

\* the context of request r, whose headers are h: contextFn derives it when
\* the request arrives, which is when it invokes its first resolver
Context(r, h) ==
    IF r <= NumRequests
    THEN tasks[CHOOSE t \in 1..Len(tasks) : tasks[t].req = r].ctx
    ELSE contextFn([headers |-> h])

NewTask(r, h, kind, input, prim, pc) ==
    [req |-> r, headers |-> h, ctx |-> Context(r, h),
     kind |-> kind, input |-> input, prim |-> prim, pc |-> pc, sec |-> <<>>]

\* request r, with headers h, may invoke one more resolver
CanCall(r, h) ==
    /\ r \in 1..NumRequests + 1
    /\ r <= NumRequests => h = tasks[CHOOSE t \in 1..Len(tasks) : tasks[t].req = r].headers
    /\ Len(tasks) < MaxTasks
    /\ Len(promises) < MaxFetches

\* Query.user
QueryUser(r, h, id) ==
    /\ CanCall(r, h)
    /\ LET t == Len(tasks) + 1
           url == buildAccountUrl(Context(r, h), "user/" \o ToStr(Num(id)), Undefined)
           st == maybeGet(Heap, url, <<>>, NoFilter, t)
       IN /\ SetHeap(st)
          /\ tasks' = Append(tasks, NewTask(r, h, "user", [id |-> Num(id)], Returned(st), "returned"))
    /\ UNCHANGED <<CACHE, args, ret>>

\* what Query.item does with its arguments: throws, or looks up an endpoint
ItemLookup(id, counter) ==
    IF ~Truthy(id) /\ ~Truthy(counter) THEN Throw
    ELSE IF Truthy(id) THEN Str("item/" \o ToStr(id))
    ELSE Str("item_by_counter/" \o ToStr(counter))

\* Query.item
QueryItem(r, h, id, counter) ==
    /\ CanCall(r, h)
    /\ LET t == Len(tasks) + 1
           lookup == ItemLookup(id, counter)
           input == [id |-> id, counter |-> counter]
       IN IF lookup = Throw
          THEN /\ tasks' = Append(tasks, NewTask(r, h, "item", input, 0, "threw"))
               /\ UNCHANGED <<cache, promises, calls>>
          ELSE LET url == buildProjectUrl(Context(r, h), lookup.str, Undefined)
                   st == maybeGet(Heap, url, <<>>, NoFilter, t)
               IN /\ SetHeap(st)
                  /\ tasks' = Append(tasks, NewTask(r, h, "item", input, Returned(st), "returned"))
    /\ UNCHANGED <<CACHE, args, ret>>

\* Query.occurrences
QueryOccurrences(r, h, page) ==
    /\ CanCall(r, h)
    /\ LET t == Len(tasks) + 1
           query == IF Truthy(page) THEN Str("page=" \o ToStr(page)) ELSE Undefined
           url == buildProjectUrl(Context(r, h), "instances", query)
           st == maybeGet(Heap, url, <<"instances">>, NoFilter, t)
       IN /\ SetHeap(st)
          /\ tasks' = Append(tasks,
                NewTask(r, h, "occurrences", [page |-> page], Returned(st), "returned"))
    /\ UNCHANGED <<CACHE, args, ret>>

\* Team.users up to the .then: the membership fetch
TeamUsers(r, h, id) ==
    /\ CanCall(r, h)
    /\ LET t == Len(tasks) + 1
           url == buildAccountUrl(Context(r, h), "team/" \o ToStr(Num(id)) \o "/users",
                                  Str("page=1"))
           st == maybeGet(Heap, url, <<>>, NoFilter, t)
       IN /\ SetHeap(st)
          /\ tasks' = Append(tasks, NewTask(r, h, "Team.users", [id |-> Num(id)], Returned(st), "wait"))
    /\ UNCHANGED <<CACHE, args, ret>>

\* Team.projects up to the .then
TeamProjects(r, h, id) ==
    /\ CanCall(r, h)
    /\ LET t == Len(tasks) + 1
           url == buildAccountUrl(Context(r, h), "team/" \o ToStr(Num(id)) \o "/projects",
                                  Undefined)
           st == maybeGet(Heap, url, <<>>, NoFilter, t)
       IN /\ SetHeap(st)
          /\ tasks' = Append(tasks, NewTask(r, h, "Team.projects", [id |-> Num(id)], Returned(st), "wait"))
    /\ UNCHANGED <<CACHE, args, ret>>

\* the member field and the endpoint prefix of the two fan-out resolvers
FanField(kind) == IF kind = "Team.users" THEN "user_id" ELSE "project_id"
FanPrefix(kind) == IF kind = "Team.users" THEN "user/" ELSE "project/"

\* data.map(({ user_id }) => maybeGet(buildAccountUrl(ctx, `user/${user_id}`))):
\* one maybeGet per element, in order; destructuring a null or undefined
\* element throws and ends the map there
RECURSIVE MapMaybeGet(_, _, _, _)
MapMaybeGet(st, elems, t, ctx) ==
    IF elems = <<>> \/ IsNullish(Head(elems)) THEN st
    ELSE MapMaybeGet(
            maybeGet(st,
                     buildAccountUrl(ctx,
                         FanPrefix(tasks[t].kind) \o ToStr(Get(Head(elems), FanField(tasks[t].kind))),
                         Undefined),
                     <<>>, NoFilter, t),
            Tail(elems), t, ctx)

\* the .then callback of Team.users and Team.projects, run once the
\* membership promise is fulfilled
FanOut(t) ==
    /\ t \in 1..Len(tasks)
    /\ tasks[t].pc = "wait"
    /\ LET data == promises[tasks[t].prim].out
       IN /\ data \notin {Pending, Throw}
          /\ IF ~Truthy(data)
             THEN /\ tasks' = [tasks EXCEPT ![t].pc = "returned data"]
                  /\ UNCHANGED <<cache, promises, calls>>
             ELSE IF data.t # "list"
             THEN /\ tasks' = [tasks EXCEPT ![t].pc = "threw"]
                  /\ UNCHANGED <<cache, promises, calls>>
             ELSE LET st == MapMaybeGet(Heap, data.list, t, tasks[t].ctx)
                         n == Len(st.calls) - Len(calls)
                     IN /\ Len(st.promises) <= MaxFetches
                        /\ SetHeap(st)
                        /\ tasks' = [tasks EXCEPT
                              ![t].pc = IF n < Len(data.list) THEN "threw" ELSE "returned all",
                              ![t].sec = [i \in 1..n |-> st.calls[Len(calls) + i].p]]
    /\ UNCHANGED <<CACHE, args, ret>>

\* what the promise a resolver invocation returned has settled to, Pending
\* until then, Throw for a rejection or a synchronous throw
Outcome(t) ==
    LET task == tasks[t]
    IN CASE task.pc = "threw" -> Throw
         [] task.pc = "returned" -> promises[task.prim].out
         [] task.pc = "wait" ->
                IF promises[task.prim].out = Throw THEN Throw ELSE Pending
         [] task.pc = "returned data" -> promises[task.prim].out
         [] task.pc = "returned all" -> PromiseAll(task.sec)

----------------------------------------------------------------------------
(* Requests and upstream completions *)

\* promise p settles after one that was issued later
SettledAfter(p) == \E q \in p + 1..Len(promises) : promises[q].out # Pending

\* the upstream answers fetch number p with an envelope, which the last
\* .then of maybeGet unwraps
Respond(p, env) ==
    /\ p \in 1..Len(promises)
    /\ promises[p].out = Pending
    /\ env \in Envelopes(promises[p].url)
    /\ promises' = [promises EXCEPT
          ![p].env = env,
          ![p].out = Unwrap(env, promises[p].path, promises[p].filter),
          ![p].late = SettledAfter(p)]
    /\ UNCHANGED <<CACHE, cache, calls, tasks, args, ret>>

\* fetch number p fails in the transport, or its body is no JSON
Fail(p) ==
    /\ p \in 1..Len(promises)
    /\ promises[p].out = Pending
    /\ promises' = [promises EXCEPT ![p].out = Throw, ![p].late = SettledAfter(p)]
    /\ UNCHANGED <<CACHE, cache, calls, tasks, args, ret>>

Init ==
    /\ CACHE \in BOOLEAN
    /\ cache = <<>>
    /\ promises = <<>>
    /\ calls = <<>>
    /\ tasks = <<>>
    /\ args = Undefined
    /\ ret = Undefined

----------------------------------------------------------------------------
(* trunc and the unwrapper applied on their own *)

\* [0, 1, ..., n - 1]
Iota(n) == [i \in 1..n |-> Num(i - 1)]

\* first and skip: absent, null or a non-negative Int
WindowArgs == {Undefined, Null} \cup { Num(k) : k \in 0..MaxArg }

\* what the promise given to trunc settles to: a rejection, an absent list,
\* a list, or a value that is no list
TruncData ==
    {Throw, Null, Undefined, Obj([message |-> Str("x")])}
        \cup { List(Iota(n)) : n \in 0..MaxLen }

InitTrunc ==
    /\ CACHE = FALSE /\ cache = <<>> /\ promises = <<>> /\ calls = <<>> /\ tasks = <<>>
    /\ args \in [first : WindowArgs, skip : WindowArgs, data : TruncData]
    /\ ret = Pending

\* the promise settles and trunc's callback runs
ApplyTrunc ==
    /\ ret = Pending
    /\ ret' = trunc(args.first, args.skip, args.data)
    /\ UNCHANGED <<CACHE, cache, promises, calls, tasks, args>>

SpecTrunc == InitTrunc /\ [][ApplyTrunc]_vars

UserGood == Obj([username |-> Str("x"), email |-> Str("y")])
UserNoName == Obj([username |-> Str(""), email |-> Str("y")])
ProjectGood == Obj([status |-> Str("enabled")])
ProjectNoStatus == Obj([name |-> Str("p")])

ErrValues == {Undefined, Null, Num(0), Str(""), Num(1), Str("boom"), Obj([code |-> Num(0)])}

ResultValues ==
    { Undefined, Null, Num(0), Num(7), Str("text"),
      List(<<>>),
      List(<<UserGood, UserNoName>>),
      List(<<ProjectNoStatus, ProjectGood, UserGood>>),
      List(<<UserGood, Null>>),
      Obj([a |-> Obj([b |-> List(<<Num(1), Num(2), Num(3)>>)])]),
      Obj([a |-> List(<<ProjectGood, ProjectNoStatus>>), users |-> Null]),
      Obj([users |-> List(<<UserNoName, UserGood>>)]) }

Paths == { <<>>, <<"a">>, <<"a", "b">>, <<"a", "missing">>, <<"users">> }

InitUnwrap ==
    /\ CACHE = FALSE /\ cache = <<>> /\ promises = <<>> /\ calls = <<>> /\ tasks = <<>>
    /\ args \in [data : [err : ErrValues, result : ResultValues],
                 path : Paths, filter : Filters]
    /\ ret = Pending

\* the envelope arrives and the last .then of maybeGet runs
ApplyUnwrap ==
    /\ ret = Pending
    /\ ret' = Unwrap(args.data, args.path, args.filter)
    /\ UNCHANGED <<CACHE, cache, promises, calls, tasks, args>>

SpecUnwrap == InitUnwrap /\ [][ApplyUnwrap]_vars

\* the upstream completes a fetch
Upstream ==
    \/ \E p \in 1..Len(promises) : \E env \in Envelopes(promises[p].url) : Respond(p, env)
    \/ \E p \in 1..Len(promises) : Fail(p)

\* Requests that look up a user in the account scope (Query.user), and an
\* item (Query.item, by id) and pages of occurrences (Query.occurrences) in
\* the project scope
Next ==
    \/ \E r \in 1..MaxTasks, h \in Headers, id \in UserIds : QueryUser(r, h, id)
    \/ \E r \in 1..MaxTasks, h \in Headers : QueryItem(r, h, Num(1), Undefined)
    \/ \E r \in 1..MaxTasks, h \in Headers, page \in Pages : QueryOccurrences(r, h, page)
    \/ Upstream

Spec == Init /\ [][Next]_vars

\* Requests for an item, with every combination of id and counter
NextItem ==
    \/ \E r \in 1..MaxTasks, h \in ItemHeaders, id \in ItemIds, counter \in ItemCounters :
          QueryItem(r, h, id, counter)
    \/ Upstream

SpecItem == Init /\ [][NextItem]_vars

\* Requests that resolve the relational fields of a team, next to requests
\* for one of its users
NextFanOut ==
    \/ \E r \in 1..MaxTasks, h \in FanOutHeaders, id \in UserIds : QueryUser(r, h, id)
    \/ \E r \in 1..MaxTasks, h \in FanOutHeaders, id \in TeamIds : TeamUsers(r, h, id)
    \/ \E r \in 1..MaxTasks, h \in FanOutHeaders, id \in TeamIds : TeamProjects(r, h, id)
    \/ \E t \in 1..Len(tasks) : FanOut(t)
    \/ Upstream

SpecFanOut == Init /\ [][NextFanOut]_vars

----------------------------------------------------------------------------
(* Properties of trunc and of the unwrapper *)

Absent(v) == v \in {Undefined, Null}

\* the elements of l at the 0-based indices lo, lo + 1, ..., hi - 1
Window(l, lo, hi) ==
    LET n == Max(0, Min(hi, Len(l)) - lo)
    IN [j \in 1..n |-> l[lo + j]]

\* C4: trunc returns the list unchanged when first and skip are both absent,
\* the indices [0, first) when only first is given, everything after index
\* skip when only skip is given, the indices [skip+1, skip+1+first) when both
\* are given, and an absent list as it is.
C4_TruncWindows ==
    ret # Pending =>
        LET f == args.first
            s == args.skip
            d == args.data
        IN /\ Absent(d) => ret = d
           /\ d.t = "list" =>
                /\ (Absent(f) /\ Absent(s)) => ret = d
                /\ (~Absent(f) /\ Absent(s)) => ret = List(Window(d.list, 0, f.num))
                /\ (Absent(f) /\ ~Absent(s)) =>
                        ret = List(Window(d.list, s.num + 1, Len(d.list)))
                /\ (~Absent(f) /\ ~Absent(s)) =>
                        ret = List(Window(d.list, s.num + 1, s.num + 1 + f.num))

\* C3: an envelope whose err is truthy unwraps to null, whatever the path
\* and the filter; the callback does not throw.
C3_ErrYieldsNull ==
    (ret # Pending /\ Truthy(args.data.err)) => ret = Null

\* an error envelope whose result would make the filter throw
C3_Witness ==
    /\ ret = Null
    /\ args.data.err = Str("boom")
    /\ args.data.result = List(<<UserGood, Null>>)
    /\ args.path = <<>>
    /\ args.filter = UserFilter

\* C7: on a success envelope with a filter, a list reached (result itself, or
\* the value at the path) is filtered in order, and anything else reached is
\* returned unchanged without a throw.
C7_FilterOnlyLists ==
    (ret # Pending /\ ~Truthy(args.data.err) /\ args.filter # NoFilter) =>
        LET v == IF args.path = <<>> THEN args.data.result
                 ELSE PathReduce(args.data.result, args.path)
        IN IF v.t = "list"
           THEN ret = List(SelectSeq(v.list, LAMBDA u : FilterKeeps(args.filter, u)))
           ELSE ret = v

----------------------------------------------------------------------------
(* Properties of the cache and of the per-request context *)

SameKey(c, d) == c.url = d.url /\ c.path = d.path

\* C1: with caching enabled, the maybeGet calls for one (URL, path) key all
\* return the promise of the first call and cause one fetch, also while that
\* fetch is in flight; with caching disabled every call issues its own fetch.
C1_OneFetchPerKey ==
    /\ CACHE =>
          /\ \A i, j \in 1..Len(calls) :
                (i < j /\ SameKey(calls[i], calls[j])) =>
                    calls[j].hit /\ calls[j].p = calls[i].p
          /\ \A p, q \in 1..Len(promises) :
                p # q => ~SameKey(promises[p], promises[q])
    /\ ~CACHE =>
          /\ Len(promises) = Len(calls)
          /\ \A i \in 1..Len(calls) : ~calls[i].hit /\ calls[i].p = i

\* a second call for the key got the promise of the first while it was pending
C1_Witness ==
    /\ CACHE
    /\ Len(promises) = 1
    /\ \E i, j \in 1..Len(calls) :
          /\ i < j
          /\ SameKey(calls[i], calls[j])
          /\ calls[j].p = calls[i].p
          /\ calls[j].seen = Pending

\* the token a request with headers h must use: its header when it carries a
\* non-empty one, else the process default
HeaderOr(h, name, default) ==
    IF h # Undefined /\ name \in DOMAIN h.obj /\ h.obj[name].str # ""
    THEN h.obj[name].str
    ELSE default

\* Query.item and Query.occurrences are project-scoped, the other resolvers
\* modelled are account-scoped
ProjectScoped(kind) == kind \in {"item", "occurrences"}

EndpointsSeen ==
    {"user/1", "user/2", "item/1", "item_by_counter/1", "instances",
     "team/1/users", "team/1/projects", "project/1", "project/2"}
QueriesSeen == {"", "&page=1", "&page=2"}

\* C6: the context of a request is derived from its own headers and the
\* process defaults alone, the account header reaches the account-scoped URLs
\* of that request only, and its project-scoped URLs carry the project token.
C6_ContextPerRequest ==
    \A t \in 1..Len(tasks) :
        LET acct == HeaderOr(tasks[t].headers, AccountHeader, ACCOUNT_TOKEN)
            proj == HeaderOr(tasks[t].headers, ProjectHeader, PROJECT_TOKEN)
            token == IF ProjectScoped(tasks[t].kind) THEN proj ELSE acct
        IN /\ tasks[t].ctx = [accountToken |-> Str(acct), projectToken |-> Str(proj)]
           /\ \A j \in 1..Len(calls) :
                 calls[j].task = t =>
                    \E e \in EndpointsSeen, q \in QueriesSeen :
                        calls[j].url = BASE_URL \o e \o "?access_token=" \o token \o q

\* a request with an account header looked an item up with the default
\* project token, and a later request without headers used the default
\* account token
C6_Witness ==
    \E t, u \in 1..Len(tasks) :
        /\ tasks[t].req < tasks[u].req
        /\ tasks[t].headers = Obj((AccountHeader :> Str("foo")))
        /\ tasks[t].kind = "item"
        /\ tasks[t].ctx.accountToken = Str("foo")
        /\ \E j \in 1..Len(calls) :
              /\ calls[j].task = t
              /\ calls[j].url = BASE_URL \o "item/1?access_token=" \o PROJECT_TOKEN
        /\ tasks[u].headers = Undefined
        /\ tasks[u].kind = "user"
        /\ \E j \in 1..Len(calls) :
              /\ calls[j].task = u
              /\ calls[j].url = BASE_URL \o "user/1?access_token=" \o ACCOUNT_TOKEN

\* the token of the context that call c built its URL from
TokenOf(c) ==
    IF ProjectScoped(tasks[c.task].kind)
    THEN tasks[c.task].ctx.projectToken
    ELSE tasks[c.task].ctx.accountToken

\* the call that issued the fetch whose promise call c returned
Fetcher(c) ==
    calls[CHOOSE i \in 1..Len(calls) : calls[i].p = c.p /\ ~calls[i].hit]

\* C10: a maybeGet call returns a promise that was fetched with the token of
\* its own request's context, for a URL and a path equal to its own.
C10_NoCrossTokenSharing ==
    \A j \in 1..Len(calls) :
        /\ \E i \in 1..Len(calls) : calls[i].p = calls[j].p /\ ~calls[i].hit
        /\ TokenOf(Fetcher(calls[j])) = TokenOf(calls[j])
        /\ SameKey(Fetcher(calls[j]), calls[j])

\* with caching on, two requests with different account tokens asked for the
\* same user and each got a fetch of its own
C10_Witness ==
    /\ CACHE
    /\ \E i, j \in 1..Len(calls) :
          /\ i < j
          /\ tasks[calls[i].task].req # tasks[calls[j].task].req
          /\ tasks[calls[i].task].kind = "user"
          /\ tasks[calls[j].task].kind = "user"
          /\ TokenOf(calls[i]) # TokenOf(calls[j])
          /\ calls[i].p # calls[j].p

----------------------------------------------------------------------------
(* Properties of Query.item *)

\* the calls of maybeGet that resolver invocation t made, in order
CallsOf(t) == SelectSeq(calls, LAMBDA c : c.task = t)

\* C2: Query.item with id and counter both omitted throws without a lookup;
\* with an id it makes one lookup by id, and with only a counter one lookup
\* by counter.
C2_ItemLookup ==
    \A t \in 1..Len(tasks) :
        tasks[t].kind = "item" =>
            LET id == tasks[t].input.id
                counter == tasks[t].input.counter
            IN /\ (Absent(id) /\ Absent(counter)) =>
                    tasks[t].pc = "threw" /\ CallsOf(t) = <<>>
               /\ ~(Absent(id) /\ Absent(counter)) =>
                    /\ tasks[t].pc = "returned"
                    /\ Len(CallsOf(t)) = 1
                    /\ CallsOf(t)[1].url =
                          buildProjectUrl(tasks[t].ctx,
                              IF ~Absent(id) THEN "item/" \o ToStr(id)
                              ELSE "item_by_counter/" \o ToStr(counter),
                              Undefined)

----------------------------------------------------------------------------
(* Properties of the fan-out resolvers *)

\* the positions in calls of the maybeGet calls of resolver invocation t: the
\* membership lookup first, then one per member
CallIdx(t) == SelectSeq([i \in 1..Len(calls) |-> i], LAMBDA i : calls[i].task = t)

\* the membership list that invocation t fanned out over
Members(t) == promises[tasks[t].prim].out.list

DistinctIds(t) ==
    \A i, j \in 1..Len(Members(t)) :
        i # j => Get(Members(t)[i], FanField(tasks[t].kind))
                    # Get(Members(t)[j], FanField(tasks[t].kind))

\* the URL of the secondary lookup for the i-th member
MemberUrl(t, i) ==
    BASE_URL \o FanPrefix(tasks[t].kind)
        \o ToStr(Get(Members(t)[i], FanField(tasks[t].kind)))
        \o "?access_token=" \o tasks[t].ctx.accountToken.str

\* the promise of the secondary lookup for the i-th member
MemberPromise(t, i) == promises[calls[CallIdx(t)[i + 1]].p]

\* C5 as stated: Team.users over N records with distinct user ids issues N
\* upstream fetches, one per record, and resolves to their results in the
\* order of the records.
C5_FetchPerMember ==
    \A t \in 1..Len(tasks) :
        (tasks[t].kind = "Team.users" /\ tasks[t].pc = "returned all" /\ DistinctIds(t)) =>
            /\ Len(CallIdx(t)) = Len(Members(t)) + 1
            /\ \A i \in 1..Len(Members(t)) :
                  /\ calls[CallIdx(t)[i + 1]].url = MemberUrl(t, i)
                  /\ ~calls[CallIdx(t)[i + 1]].hit
            /\ (\A i \in 1..Len(Members(t)) : MemberPromise(t, i).out \notin {Pending, Throw})
                  => Outcome(t) = List([i \in 1..Len(Members(t)) |-> MemberPromise(t, i).out])

\* C5 as amended: one lookup per record, which fetches unless caching is on
\* and an earlier call stored its key; the results come in the order of the
\* records once all lookups are fulfilled, and a rejected one rejects the
\* resolver.
C5_LookupPerMember ==
    \A t \in 1..Len(tasks) :
        (tasks[t].kind = "Team.users" /\ tasks[t].pc = "returned all" /\ DistinctIds(t)) =>
            /\ Len(CallIdx(t)) = Len(Members(t)) + 1
            /\ \A i \in 1..Len(Members(t)) :
                  LET j == CallIdx(t)[i + 1]
                  IN /\ calls[j].url = MemberUrl(t, i)
                     /\ calls[j].hit <=>
                           (CACHE /\ \E k \in 1..j - 1 : SameKey(calls[k], calls[j]))
            /\ (\A i \in 1..Len(Members(t)) : MemberPromise(t, i).out \notin {Pending, Throw})
                  => Outcome(t) = List([i \in 1..Len(Members(t)) |-> MemberPromise(t, i).out])
            /\ (\E i \in 1..Len(Members(t)) : MemberPromise(t, i).out = Throw)
                  => Outcome(t) = Throw

\* two members, two fetches, the first completed after the second, and the
\* results are in the order of the records
C5_Witness ==
    \E t \in 1..Len(tasks) :
        /\ tasks[t].kind = "Team.users"
        /\ tasks[t].pc = "returned all"
        /\ Len(Members(t)) = 2
        /\ ~calls[CallIdx(t)[2]].hit
        /\ ~calls[CallIdx(t)[3]].hit
        /\ MemberPromise(t, 1).late
        /\ Outcome(t) = List(<<Entity(MemberUrl(t, 1)), Entity(MemberUrl(t, 2))>>)

IsFanOut(kind) == kind \in {"Team.users", "Team.projects"}

\* C9: a secondary fetch that reports err leaves null at its member's place
\* and the other members' results in theirs; an absent membership list makes
\* the resolver return it without a secondary lookup.
C9_AbsentMembers ==
    \A t \in 1..Len(tasks) :
        IsFanOut(tasks[t].kind) =>
            /\ Absent(promises[tasks[t].prim].out) =>
                  /\ Len(CallIdx(t)) = 1
                  /\ tasks[t].pc \in {"wait", "returned data"}
                  /\ tasks[t].pc = "returned data" => Outcome(t) = promises[tasks[t].prim].out
            /\ (/\ tasks[t].pc = "returned all"
                /\ \A i \in 1..Len(Members(t)) : MemberPromise(t, i).out \notin {Pending, Throw})
                  => /\ Outcome(t).t = "list"
                     /\ Len(Outcome(t).list) = Len(Members(t))
                     /\ \A i \in 1..Len(Members(t)) :
                           Outcome(t).list[i] =
                              IF Truthy(MemberPromise(t, i).env.err) THEN Null
                              ELSE MemberPromise(t, i).env.result

\* the fetch for the first member reported err, the one for the second did not
C9_Witness ==
    \E t \in 1..Len(tasks) :
        /\ IsFanOut(tasks[t].kind)
        /\ tasks[t].pc = "returned all"
        /\ MemberPromise(t, 1).env = ErrEnvelope
        /\ Outcome(t) = List(<<Null, Entity(MemberUrl(t, 2))>>)

NewCalls == Len(calls) + 1..Len(calls')

C8_Step ==
    /\ \A k \in DOMAIN cache : k \in DOMAIN cache' /\ cache'[k] = cache[k]
    /\ \A p \in 1..Len(promises) :
          /\ p <= Len(promises')
          /\ promises[p].out # Pending => promises'[p].out = promises[p].out
    /\ CACHE =>
          /\ \A j \in NewCalls :
                Key(calls'[j].url, calls'[j].path) \in DOMAIN cache =>
                    /\ calls'[j].hit
                    /\ calls'[j].p = cache[Key(calls'[j].url, calls'[j].path)]
                    /\ calls'[j].seen = promises[calls'[j].p].out
          /\ Len(promises') - Len(promises) =
                Cardinality({ Key(calls'[j].url, calls'[j].path) : j \in NewCalls }
                                \ DOMAIN cache)

\* C8: a cache entry, once stored, is never removed or replaced, a settled
\* result never changes, and a maybeGet for a stored key returns the stored
\* promise without a fetch, whatever that promise has settled to.
C8_CacheOnlyGrows == [][C8_Step]_vars

\* later lookups were served from the cache with a null stored for an
\* upstream err and with a rejection stored for a transport failure
C8_Witness ==
    /\ CACHE
    /\ \E i, j \in 1..Len(calls) :
          /\ calls[i].hit /\ calls[i].seen = Null
          /\ promises[calls[i].p].env = ErrEnvelope
          /\ calls[j].hit /\ calls[j].seen = Throw

====
